---- MODULE Spec2Model ----
(***************************************************************************)
(* State-machine model of the GoodWe AA55 integration: the inverter client *)
(* (inverter.py), the update coordinator (coordinator.py) and the midnight *)
(* reset callback of the daily sensor (sensor.py).                         *)
(*                                                                         *)
(* Python values are modelled as follows.                                  *)
(*   - A value that may be None is a tuple: None is << >>, any other value *)
(*     v is <<v>> (written V(v)).                                          *)
(*   - A dict is a function from the set of its keys to such tuples.       *)
(*   - The decoded decimal readings (x / 10, x / 100) are kept as the      *)
(*     integer numerator x; the divisor is fixed per field, so equality    *)
(*     and comparison with zero are those of the quotient.                 *)
(***************************************************************************)
EXTENDS Integers, Sequences, FiniteSets, TLC

(***************************************************************************)
(* Bounds of the model.                                                    *)
(***************************************************************************)
\* raw work_mode words 0..MaxRawWorkMode are received (0, 1, 2 are valid)
MaxRawWorkMode == 3
\* the device answers with payloads of 0..MaxPayloadLen bytes
MaxPayloadLen == 2
\* raw e_today and e_total words 0..MaxEnergy are received
MaxEnergy == 1
\* the observer's count of consecutive transient failures saturates here
MaxStreak == 3

(***************************************************************************)
(* Readings of the built-in running-info payload (inverter.py line 153),   *)
(* used as the received values of the fields the model does not vary.      *)
(***************************************************************************)
CannedPac == 137
CannedVoltage == 2381
CannedFrequency == 5004
CannedTemperature == 241
CannedRunningHours == 7164

\* cs.recv(150): at most this many bytes of a datagram are returned
RecvBufSize == 150

VARIABLES
    data,                 \* coordinator.data: None or <<dict>>
    _last_data,           \* coordinator._last_data: dict
    last_update_success,  \* coordinator.last_update_success
    inverter,             \* the Inverter object's running-info attributes
    reset_scheduled,      \* the e_today sensor's midnight callback is armed
    last_call,            \* the handler that ran last
    outcome,              \* exit taken by the last get_running_info call
    streak,               \* observer: consecutive transient failures so far
    message,              \* _execute_aa55_command: the command being sent
    reply,                \* all the bytes the device answers with
    wire,                 \* the datagrams of the answer not yet received
    more,                 \* the device then keeps sending empty datagrams
    reads,                \* parity of the number of datagrams received
    cs,                   \* the socket of the exchange: none, open, closed
    pc,                   \* position in _execute_aa55_command
    response,             \* the bytes accumulated so far
    result,               \* how the exchange ended, and the payload returned
    fn,                   \* the pure function under study
    fn_in,                \* its argument
    fn_out                \* None before it is applied, then its result

pollVars == <<data, _last_data, last_update_success, inverter,
              reset_scheduled, last_call, outcome, streak>>

exchangeVars ==
    <<message, reply, wire, more, reads, cs, pc, response, result>>

codecVars == <<fn, fn_in, fn_out>>

vars == <<pollVars, exchangeVars, codecVars>>

None == << >>

V(x) == <<x>>

\* dict.get(key): the value, or None for a missing key
Get(d, key) == IF key \in DOMAIN d THEN d[key] ELSE None

\* d[key] = value
SetItem(d, key, value) ==
    [k \in DOMAIN d \cup {key} |-> IF k = key THEN value ELSE d[k]]

\* the empty dict {}
EmptyDict == [k \in {} |-> None]

\* truth value of coordinator.data: None and {} are false
DataTruthy(d) == d # None /\ DOMAIN d[1] # {}

\* truth value of a numeric dict value: None and 0 are false
NumTruthy(val) == val # None /\ val # V(0)

(***************************************************************************)
(* inverter.py                                                             *)
(***************************************************************************)
InverterStatusValues == {-1, 0, 1, 2}

InverterStatusName(v) ==
    CASE v = -1 -> "Offline"
      [] v = 0 -> "Waiting"
      [] v = 1 -> "Online"
      [] v = 2 -> "Error"

\* InverterStatus with an unknown value coerced to Offline instead of raising
InverterStatus_Coerce(v) ==
    IF v \in InverterStatusValues
    THEN [exc |-> "none", name |-> InverterStatusName(v)]
    ELSE [exc |-> "none", name |-> InverterStatusName(-1)]

\* InverterStatus(v): the enum lookup; a value that is no member raises
\* ValueError
InverterStatus(v) ==
    IF v \in InverterStatusValues
    THEN [exc |-> "none", name |-> InverterStatusName(v)]
    ELSE [exc |-> "ValueError", name |-> ""]

\* class attributes of Inverter before any running-info call
InverterInit ==
    [work_mode |-> -1, work_mode_string |-> None, pac |-> -1, e_today |-> -1,
     e_total |-> -1, l1_voltage |-> -1, l1_frequency |-> -1,
     temperature |-> -1, running_hours |-> -1]

\* getattr(inverter, "consecutive_com_failures"): None stands for the
\* AttributeError of an attribute the object does not have
consecutive_com_failures ==
    IF "consecutive_com_failures" \in DOMAIN inverter
    THEN V(inverter.consecutive_com_failures)
    ELSE None

\* the dicts _query_running_info can decode from a validated payload
RunningInfos ==
    [work_mode : 0..MaxRawWorkMode, pac : {CannedPac},
     e_today : 0..MaxEnergy, e_total : 0..MaxEnergy,
     l1_voltage : {CannedVoltage}, l1_frequency : {CannedFrequency},
     temperature : {CannedTemperature}, running_hours : {CannedRunningHours}]

\* how a call of _query_running_info ends: it returns a decoded dict, or
\* _execute_aa55_command raises RequestFailedException (no response, short
\* first chunk, header mismatch, timeout during reassembly, checksum
\* mismatch), or a TimeoutError leaves it (the send on the socket with a
\* timeout set, line 67)
QueryKinds == {"decoded", "RequestFailedException", "TimeoutError"}

\* the calls that end in an exception decode nothing
FailureKinds == QueryKinds \ {"decoded"}

NoPayload == [k \in {} |-> 0]

\* get_running_info: the exit taken, the inverter attributes afterwards,
\* the exception that leaves the call ("none": it returns) and the value
\* returned
get_running_info(kind, info) ==
    CASE kind = "TimeoutError" ->
           [exit |-> "timeout",
            inverter |-> [inverter EXCEPT !.work_mode = -1,
                              !.work_mode_string = V(InverterStatusName(-1)),
                              !.pac = 0, !.l1_voltage = 0,
                              !.l1_frequency = 0, !.temperature = 0],
            exc |-> "none", ret |-> None]
      [] kind = "RequestFailedException" ->
           [exit |-> "error", inverter |-> inverter,
            exc |-> "none", ret |-> None]
      [] kind = "decoded" ->
           LET status == InverterStatus(info.work_mode)
           IN  IF status.exc # "none"
               THEN \* line 195 has stored the value when line 196 raises
                    [exit |-> "raised",
                     inverter |->
                         [inverter EXCEPT !.work_mode = info.work_mode],
                     exc |-> status.exc, ret |-> None]
               ELSE [exit |-> "ok",
                     inverter |->
                         [work_mode |-> info.work_mode,
                          work_mode_string |-> V(status.name),
                          pac |-> info.pac, e_today |-> info.e_today,
                          e_total |-> info.e_total,
                          l1_voltage |-> info.l1_voltage,
                          l1_frequency |-> info.l1_frequency,
                          temperature |-> info.temperature,
                          running_hours |-> info.running_hours],
                     exc |-> "none",
                     ret |-> V([work_mode |-> V(status.name),
                                pac |-> V(info.pac),
                                e_today |-> V(info.e_today),
                                e_total |-> V(info.e_total),
                                l1_voltage |-> V(info.l1_voltage),
                                l1_frequency |-> V(info.l1_frequency),
                                temperature |-> V(info.temperature)])]

(***************************************************************************)
(* coordinator.py                                                          *)
(***************************************************************************)
\* CaptureLastData assigning unconditionally: a null data clears the cache
CaptureLastData_Unguarded == IF DataTruthy(data) THEN data[1] ELSE EmptyDict

\* lines 41-42: _last_data after the start of a poll cycle.  The assignment
\* makes _last_data the same object as data; the only in-place update,
\* reset_sensor, writes the same key and value to both, so the sharing is
\* not observable and the dicts are modelled by value.
CaptureLastData == IF DataTruthy(data) THEN data[1] ELSE _last_data

\* lines 63-72: the snapshot built when the streak has reached 3
OfflineSnapshot(last) ==
    [work_mode |-> V(InverterStatusName(-1)), pac |-> V(0),
     e_today |-> Get(last, "e_today"), e_total |-> Get(last, "e_total"),
     l1_voltage |-> None, l1_frequency |-> None, temperature |-> None,
     running_hours |-> Get(last, "running_hours")]

\* _async_update_data for a call result r of get_running_info: the
\* exception that leaves it ("none": it returns) and the value returned
UpdateResult(r, last) ==
    CASE r.exc = "none" -> [exc |-> "none", ret |-> r.ret]
      [] r.exc = "RequestFailedException" ->
           IF consecutive_com_failures = None
           THEN [exc |-> "AttributeError", ret |-> None]
           ELSE IF consecutive_com_failures[1] < 3
                THEN [exc |-> "none", ret |-> V(last)]
                ELSE [exc |-> "none", ret |-> V(OfflineSnapshot(last))]
      [] r.exc = "InverterError" -> [exc |-> "UpdateFailed", ret |-> None]
      [] OTHER -> [exc |-> r.exc, ret |-> None]

\* one poll cycle: the coordinator's refresh (DataUpdateCoordinator) calls
\* _async_update_data; a returned value, None included, is stored in data
\* and last_update_success becomes True; an exception leaves data as it was
\* and last_update_success becomes False
_async_update_data(kind, info) ==
    LET r == get_running_info(kind, info)
        last == CaptureLastData
        u == UpdateResult(r, last)
    IN  /\ _last_data' = last
        /\ inverter' = r.inverter
        /\ data' = IF u.exc = "none" THEN u.ret ELSE data
        /\ last_update_success' = (u.exc = "none")
        /\ outcome' = r.exit
        /\ streak' = CASE r.exit = "ok" -> 0
                       [] r.exit \in {"timeout", "error"} ->
                            IF streak < MaxStreak THEN streak + 1 ELSE streak
                       [] OTHER -> streak
        /\ last_call' = "_async_update_data"
        /\ UNCHANGED <<reset_scheduled, exchangeVars, codecVars>>

\* sensor_value: data.get raises AttributeError when data is None
sensor_value_raises == data = None

sensor_value(sensor) ==
    LET val == Get(data[1], sensor)
    IN  IF val # None THEN val ELSE Get(_last_data, sensor)

total_sensor_value_raises == data = None

total_sensor_value(sensor) ==
    LET val == Get(data[1], sensor)
    IN  IF NumTruthy(val) THEN val ELSE Get(_last_data, sensor)

\* reset_sensor: line 93 runs, then line 94 raises TypeError when data is None
reset_sensor_raises == data = None

reset_sensor(sensor) ==
    /\ _last_data' = SetItem(_last_data, sensor, V(0))
    /\ data' = IF data = None THEN data
               ELSE V(SetItem(data[1], sensor, V(0)))

(***************************************************************************)
(* sensor.py                                                               *)
(***************************************************************************)
DAILY_RESET == {"e_today"}

\* availability lambdas of _DESCRIPTIONS: e_today and e_total test the data,
\* the other sensors the success of the last update
available(sensor) ==
    IF sensor \in {"e_today", "e_total"} THEN data # None
    ELSE last_update_success

\* async_reset of a daily sensor, fired by the timer at midnight; it arms
\* the next midnight's callback only when it gets to line 212
async_reset(sensor) ==
    /\ reset_scheduled
    /\ IF ~last_update_success \/ inverter.work_mode = -1
       THEN /\ reset_sensor(sensor)
            /\ reset_scheduled' = ~reset_sensor_raises
       ELSE UNCHANGED <<_last_data, data, reset_scheduled>>
    /\ last_call' = "async_reset"
    /\ UNCHANGED <<last_update_success, inverter, outcome, streak,
                   exchangeVars, codecVars>>

(***************************************************************************)
(* The system.  Initially the coordinator has been built (data None, the   *)
(* cache empty), the inverter holds its class attributes and the e_today   *)
(* sensor has armed its midnight callback (async_added_to_hass).           *)
(***************************************************************************)
PollInit ==
    /\ data = None
    /\ _last_data = EmptyDict
    /\ last_update_success = TRUE
    /\ inverter = InverterInit
    /\ reset_scheduled = TRUE
    /\ last_call = "none"
    /\ outcome = "none"
    /\ streak = 0

\* no exchange is under way
ExchangeIdle ==
    /\ message = << >>
    /\ reply = << >>
    /\ wire = << >>
    /\ more = FALSE
    /\ reads = 0
    /\ cs = "none"
    /\ pc = "idle"
    /\ response = << >>
    /\ result = [kind |-> "none", payload |-> << >>]

\* no pure function is under study
CodecIdle ==
    /\ fn = "none"
    /\ fn_in = << >>
    /\ fn_out = None

Init == PollInit /\ ExchangeIdle /\ CodecIdle

Poll ==
    \/ \E info \in RunningInfos : _async_update_data("decoded", info)
    \/ \E kind \in FailureKinds : _async_update_data(kind, NoPayload)

MidnightReset == \E sensor \in DAILY_RESET : async_reset(sensor)

Next == Poll \/ MidnightReset

Spec == Init /\ [][Next]_vars

(***************************************************************************)
(* inverter.py: one request/response exchange, _execute_aa55_command.      *)
(* Byte strings are sequences of numbers 0..255; the Python slice s[a:b]   *)
(* is Slice(s, a, b).  The exchange takes one step per socket operation.   *)
(***************************************************************************)
Min(a, b) == IF a < b THEN a ELSE b

Max(a, b) == IF a < b THEN b ELSE a

\* s[a:b] for 0 <= a and 0 <= b
Slice(s, a, b) == SubSeq(s, a + 1, Min(b, Len(s)))

\* s[a:-2] and s[-2:]
DropLast2(s, a) == SubSeq(s, a + 1, Len(s) - 2)

Last2(s) == SubSeq(s, Max(Len(s) - 2, 0) + 1, Len(s))

\* int.to_bytes() with its default length of one byte
to_bytes(n) ==
    IF n <= 255 THEN [exc |-> "none", value |-> <<n>>]
                ELSE [exc |-> "OverflowError", value |-> << >>]

\* lines 55-61
expectedHeader(msg) ==
    IF Len(msg) < 6
        THEN [exc |-> "IndexError", value |-> << >>]
        ELSE LET last == to_bytes(msg[6] + 128)
             IN  IF last.exc # "none"
                     THEN last
                     ELSE [exc |-> "none",
                           value |-> Slice(msg, 0, 2) \o Slice(msg, 3, 4)
                                     \o Slice(msg, 2, 3) \o Slice(msg, 4, 5)
                                     \o last.value]

\* int(b.hex(), 16): the big-endian unsigned value of a byte string
RECURSIVE BigEndian(_)
BigEndian(b) ==
    IF b = << >> THEN 0
    ELSE 256 * BigEndian(SubSeq(b, 1, Len(b) - 1)) + b[Len(b)]

\* lines 112-115: calculatedCRC
RECURSIVE SumLoop(_)
SumLoop(bytesToCRC) ==
    IF bytesToCRC = << >> THEN 0
    ELSE bytesToCRC[1] + SumLoop(Tail(bytesToCRC))

calculatedCRC_Mod256(bytesToCRC) == SumLoop(bytesToCRC) % 256

calculatedCRC_HeaderOnly(bytesToCRC) == SumLoop(SubSeq(bytesToCRC, 1, 7))

calculatedCRC(bytesToCRC) == SumLoop(bytesToCRC)

\* line 77
TooShort_Eight(curResponse) == Len(curResponse) < 8

TooShort(curResponse) == Len(curResponse) < 9

\* lines 88-91
expectedResponseLength_NoCRC(first) == 7 + first[7]

expectedResponseLength(first) == 7 + first[7] + 2

\* line 95: the loop ends when the length is the expected one
LoopDone_AtLeast(buffer) == Len(buffer) >= expectedResponseLength(buffer)

LoopDone(buffer) == Len(buffer) = expectedResponseLength(buffer)

\* the two commands the client sends (lines 132 and 149)
ID_COMMAND == <<170, 85, 192, 127, 1, 2, 0, 2, 65>>

RUNNING_COMMAND == <<170, 85, 192, 127, 1, 1, 0, 2, 64>>

Commands == {ID_COMMAND, RUNNING_COMMAND}

\* the byte values the device puts in a payload or a damaged position
WireBytes == {0, 1, 255}

RECURSIVE SeqsUpTo(_, _)
SeqsUpTo(S, n) ==
    IF n = 0 THEN {<< >>}
    ELSE LET shorter == SeqsUpTo(S, n - 1)
         IN  shorter \cup {Append(q, b) : q \in shorter, b \in S}

\* the sum of the bytes of a byte string
RECURSIVE ByteSum(_)
ByteSum(b) == IF b = << >> THEN 0 ELSE Head(b) + ByteSum(Tail(b))

\* a function code with its high bit set
HighBitSet(b) == IF b >= 128 THEN b ELSE b + 128

\* the header of the answer to msg: the sync marker, the two addresses
\* swapped, the control byte, the function code with its high bit set
ResponseHeader(msg) ==
    <<msg[1], msg[2], msg[4], msg[3], msg[5], HighBitSet(msg[6])>>

\* the frame a device answers msg with: the header, the payload length,
\* the payload, and the sum of all these bytes on two bytes
ResponseFrame(msg, payload) ==
    LET body == ResponseHeader(msg) \o <<Len(payload)>> \o payload
        crc  == ByteSum(body)
    IN  body \o <<crc \div 256, crc % 256>>

Frames(msg) == {ResponseFrame(msg, p) : p \in SeqsUpTo(WireBytes, MaxPayloadLen)}

\* a frame with one byte replaced by another value
Damaged(f) ==
    {[f EXCEPT ![i] = b] : i \in 1..Len(f), b \in WireBytes} \ {f}

\* what the device may answer: nothing, a frame, a damaged frame, or a
\* frame followed by one stray byte
Replies(msg) ==
    {<< >>} \cup Frames(msg)
            \cup UNION {Damaged(f) : f \in Frames(msg)}
            \cup {Append(f, 0) : f \in Frames(msg)}

\* the answer arrives in one datagram, or cut in two after c bytes
Datagrams(r, c) ==
    IF r = << >> THEN << >>
    ELSE IF c = Len(r) THEN <<r>>
    ELSE <<SubSeq(r, 1, c), SubSeq(r, c + 1, Len(r))>>

\* cs.recv(150) of a datagram
recv(datagram) == Slice(datagram, 0, RecvBufSize)

Raise(kind) ==
    /\ result' = [kind |-> kind, payload |-> << >>]
    /\ pc' = "done"

\* lines 55-67: derive the expected header, open the socket, send
Send ==
    /\ pc = "send"
    /\ IF expectedHeader(message).exc # "none"
           THEN /\ Raise(expectedHeader(message).exc)
                /\ UNCHANGED cs
           ELSE /\ cs' = "open"
                /\ pc' = "first_recv"
                /\ UNCHANGED result
    /\ UNCHANGED <<message, reply, wire, more, reads, response,
                   pollVars, codecVars>>

\* lines 70-93: the first read and the checks on the first chunk
FirstRecv ==
    /\ pc = "first_recv"
    /\ IF wire = << >> /\ ~more
           THEN /\ Raise("no_response")                       \* line 73
                /\ UNCHANGED <<wire, reads, response>>
           ELSE LET curResponse ==
                        IF wire = << >> THEN << >> ELSE recv(Head(wire))
                IN  /\ wire' = IF wire = << >> THEN wire ELSE Tail(wire)
                    /\ reads' = 1 - reads
                    /\ IF TooShort(curResponse)
                           THEN /\ Raise("short_first_chunk")   \* line 78
                                /\ UNCHANGED response
                           ELSE IF Slice(curResponse, 0, 6)
                                      # expectedHeader(message).value
                           THEN /\ Raise("header_mismatch")     \* line 83
                                /\ UNCHANGED response
                           ELSE /\ response' = response \o curResponse
                                /\ pc' = "loop"
                                /\ UNCHANGED result
    /\ UNCHANGED <<message, reply, more, cs, pollVars, codecVars>>

\* lines 95-104: one more read while the length is not the expected one
LoopRecv ==
    /\ pc = "loop"
    /\ ~LoopDone(response)
    /\ IF wire = << >> /\ ~more
           THEN /\ Raise("stopped_sending")                   \* line 100
                /\ UNCHANGED <<wire, reads, response>>
           ELSE LET curResponse ==
                        IF wire = << >> THEN << >> ELSE recv(Head(wire))
                IN  /\ wire' = IF wire = << >> THEN wire ELSE Tail(wire)
                    /\ reads' = 1 - reads
                    /\ response' = response \o curResponse
                    /\ UNCHANGED <<pc, result>>
    /\ UNCHANGED <<message, reply, more, cs, pollVars, codecVars>>

\* lines 106-126: close the socket, check the CRC, return the payload
Validate ==
    /\ pc = "loop"
    /\ LoopDone(response)
    /\ cs' = "closed"
    /\ LET payload     == DropLast2(response, 7)
           receivedCRC == BigEndian(Last2(response))
       IN  IF calculatedCRC(DropLast2(response, 0)) # receivedCRC
               THEN Raise("crc_error")                        \* line 121
               ELSE /\ result' = [kind |-> "payload", payload |-> payload]
                    /\ pc' = "done"
    /\ UNCHANGED <<message, reply, wire, more, reads, response,
                   pollVars, codecVars>>

\* an exchange is about to start: a command, and what the device will do
ExchangeInit ==
    /\ PollInit
    /\ CodecIdle
    /\ message \in Commands
    /\ reply \in Replies(message)
    /\ \E c \in 0..Len(reply) : wire = Datagrams(reply, c)
    /\ more \in BOOLEAN
    /\ reads = 0
    /\ cs = "none"
    /\ pc = "send"
    /\ response = << >>
    /\ result = [kind |-> "none", payload |-> << >>]

NextExchange == Send \/ FirstRecv \/ LoopRecv \/ Validate

SpecExchange == ExchangeInit /\ [][NextExchange]_vars

\* every read returns within its one-second timeout, so an exchange that
\* can take a step takes it
FairExchange == SpecExchange /\ WF_vars(NextExchange)

(***************************************************************************)
(* inverter.py: the pure parts, each applied once to an argument drawn     *)
(* from a bounded set: the derivation of the expected header, and the      *)
(* parsing of the two payloads.  Text is a sequence of code points.        *)
(***************************************************************************)
\* the built-in identity payload (line 136)
CannedIdPayload ==
    <<32, 32, 32, 32, 32, 71, 87, 49, 53, 48, 48, 45,
      88, 83, 32, 32, 32, 32, 32, 32, 32, 32, 32, 32,
      32, 32, 32, 32, 32, 32, 32, 53, 49, 53, 48, 48,
      83, 83, 88, 50, 49, 49, 87, 48, 52, 49, 51, 32,
      32, 32, 32, 32, 32, 32, 32, 32, 32, 32, 32, 32,
      32, 32, 32, 6>>

\* the built-in running-info payload (line 153)
CannedRunningPayload ==
    <<6, 174, 0, 0, 0, 8, 0, 0, 9, 77, 0, 5,
      19, 140, 0, 137, 0, 1, 0, 241, 0, 0, 0, 0,
      0, 0, 122, 144, 0, 0, 27, 252, 20, 31, 0, 0,
      1, 149, 1, 64, 14, 221, 0, 6, 0, 0, 24, 1,
      30, 10, 29, 5, 0, 235, 0, 61, 0, 14, 0, 0>>

\* int(payload[a:b].hex(), 16): int('', 16) raises ValueError
IntAt_Shifted(payload, a, b) ==
    IF Slice(payload, a + 1, b + 1) = << >>
        THEN [exc |-> "ValueError", value |-> 0]
        ELSE [exc |-> "none", value |-> BigEndian(Slice(payload, a + 1, b + 1))]

IntAt(payload, a, b) ==
    IF Slice(payload, a, b) = << >>
        THEN [exc |-> "ValueError", value |-> 0]
        ELSE [exc |-> "none", value |-> BigEndian(Slice(payload, a, b))]

\* lines 156-175: the readings divided by 10 or 100 are kept as numerators
_query_running_info(payload) ==
    LET fields ==
            [l1_voltage    |-> IntAt(payload, 8, 10),
             l1_frequency  |-> IntAt(payload, 12, 14),
             pac           |-> IntAt(payload, 14, 16),
             work_mode     |-> IntAt(payload, 16, 18),
             temperature   |-> IntAt(payload, 18, 20),
             e_total       |-> IntAt(payload, 24, 28),
             running_hours |-> IntAt(payload, 30, 32),
             e_today       |-> IntAt(payload, 44, 46)]
    IN  IF \E k \in DOMAIN fields : fields[k].exc # "none"
            THEN [exc |-> "ValueError", value |-> EmptyDict]
            ELSE [exc |-> "none",
                  value |-> [k \in DOMAIN fields |-> fields[k].value]]

\* bytes.decode("ascii"): the code points are the bytes, all below 128
decode_ascii(b) ==
    IF \E k \in 1..Len(b) : b[k] >= 128
        THEN [exc |-> "UnicodeDecodeError", value |-> << >>]
        ELSE [exc |-> "none", value |-> b]

\* the characters str.rstrip() removes from the end of ASCII text
Whitespace == {9, 10, 11, 12, 13, 28, 29, 30, 31, 32}

rstrip_Keep(text) == text

RECURSIVE rstrip(_)
rstrip(text) ==
    IF text # << >> /\ text[Len(text)] \in Whitespace
        THEN rstrip(SubSeq(text, 1, Len(text) - 1))
        ELSE text

\* lines 139-143
_query_id_info(payload) ==
    LET model         == decode_ascii(Slice(payload, 5, 15))
        serial_number == decode_ascii(Slice(payload, 31, 47))
    IN  IF model.exc # "none" \/ serial_number.exc # "none"
            THEN [exc |-> "UnicodeDecodeError", value |-> EmptyDict]
            ELSE [exc |-> "none",
                  value |-> [model         |-> rstrip(model.value),
                             serial_number |-> rstrip(serial_number.value)]]

\* the address, control and function-code bytes of the requests considered
HeaderBytes == {0, 1, 127, 128, 192, 255}

Requests ==
    {<<170, 85, dst, src, ctl, fnc, 0>> :
        dst \in HeaderBytes, src \in HeaderBytes,
        ctl \in HeaderBytes, fnc \in HeaderBytes}

\* a payload with one byte replaced, or cut short
Variants(payload, values) ==
    {payload}
        \cup {[payload EXCEPT ![i] = b] : i \in 1..Len(payload), b \in values}
        \cup {SubSeq(payload, 1, n) : n \in 0..Len(payload)}

RunningPayloads == Variants(CannedRunningPayload, {0, 1, 127})

IdPayloads == Variants(CannedIdPayload, {9, 32, 65, 200})

Applied == fn_out # None

ApplyExpectedHeader ==
    /\ fn = "expectedHeader"
    /\ ~Applied
    /\ fn_out' = V(expectedHeader(fn_in))
    /\ UNCHANGED <<fn, fn_in, pollVars, exchangeVars>>

Apply_query_running_info ==
    /\ fn = "_query_running_info"
    /\ ~Applied
    /\ fn_out' = V(_query_running_info(fn_in))
    /\ UNCHANGED <<fn, fn_in, pollVars, exchangeVars>>

Apply_query_id_info ==
    /\ fn = "_query_id_info"
    /\ ~Applied
    /\ fn_out' = V(_query_id_info(fn_in))
    /\ UNCHANGED <<fn, fn_in, pollVars, exchangeVars>>

CodecInit ==
    /\ PollInit
    /\ ExchangeIdle
    /\ fn_out = None
    /\ \/ fn = "expectedHeader" /\ fn_in \in Requests
       \/ fn = "_query_running_info" /\ fn_in \in RunningPayloads
       \/ fn = "_query_id_info" /\ fn_in \in IdPayloads

NextCodec ==
    ApplyExpectedHeader \/ Apply_query_running_info \/ Apply_query_id_info

SpecCodec == CodecInit /\ [][NextCodec]_vars

(***************************************************************************)
(* Observers used by the properties.                                       *)
(***************************************************************************)
\* the exits of get_running_info that are transient failures
TransientExits == {"timeout", "error"}

\* a fetch has succeeded: only a successful fetch stores a decoded e_total
HasSucceeded == inverter.e_total # -1

(***************************************************************************)
(* Properties.                                                             *)
(***************************************************************************)
\* C1: after a successful fetch, the 1st and 2nd consecutive transient
\* failures each publish the previously published snapshot unchanged, and the
\* 3rd and every later one publishes the synthetic offline snapshot
\* (work_mode Offline, pac 0, l1_voltage, l1_frequency, temperature None).
C1_StreakPublishing ==
    [][\A kind \in FailureKinds :
          (HasSucceeded /\ _async_update_data(kind, NoPayload)) =>
              IF streak < 2
              THEN data' = data
              ELSE /\ data' # None
                   /\ Get(data'[1], "work_mode") = V("Offline")
                   /\ Get(data'[1], "pac") = V(0)
                   /\ Get(data'[1], "l1_voltage") = None
                   /\ Get(data'[1], "l1_frequency") = None
                   /\ Get(data'[1], "temperature") = None]_vars

\* C2: a poll cycle that ends in a transient failure surfaces no exception
\* and publishes a snapshot, never an absent (None) result (stated for the
\* cycles after a first success, when a last-known snapshot exists).
C2_TransientAbsorbed ==
    (HasSucceeded /\ last_call = "_async_update_data"
                  /\ outcome \in TransientExits) =>
        (last_update_success /\ data # None)

\* C3: the consecutive-failure count is 0 after every successful fetch, grows
\* by exactly 1 on every transient failure and is left unchanged by a hard
\* failure.
C3_FailureCount ==
    [][/\ \A info \in RunningInfos :
             _async_update_data("decoded", info) =>
                 IF info.work_mode \in InverterStatusValues
                 THEN consecutive_com_failures' = V(0)
                 ELSE consecutive_com_failures' = consecutive_com_failures
       /\ \A kind \in FailureKinds :
             _async_update_data(kind, NoPayload) =>
                 /\ consecutive_com_failures # None
                 /\ consecutive_com_failures' =
                        V(consecutive_com_failures[1] + 1)]_vars

\* C4: every snapshot published during a streak of transient failures holds
\* the e_today, e_total and running_hours decoded by the last successful
\* fetch (e_today may instead be the 0 of a reset made in between).
C4_CountersKept ==
    (HasSucceeded /\ streak >= 1 /\ outcome \in TransientExits) =>
        /\ data # None
        /\ Get(data[1], "e_total") = V(inverter.e_total)
        /\ Get(data[1], "running_hours") = V(inverter.running_hours)
        /\ Get(data[1], "e_today") \in {V(inverter.e_today), V(0)}

\* the total accessor answers a nonzero e_total
TotalReported ==
    /\ ~total_sensor_value_raises
    /\ NumTruthy(total_sensor_value("e_total"))

\* C5: once a nonzero e_total has been published, the total accessor never
\* returns 0 or an absent value for e_total in any later state.
C5_TotalNeverZero == [][TotalReported => TotalReported']_vars

\* the guard of async_reset (sensor.py 205-208)
ResetDue == ~last_update_success \/ inverter.work_mode = -1

\* C6: reset(field) sets the live and the cached value of the field to 0 and
\* leaves every other field of both snapshots unchanged (stated for the
\* resets made when the last poll cycle ended in a transient failure).
C6_ResetFrame ==
    [][\A sensor \in DAILY_RESET :
          (outcome \in TransientExits /\ ResetDue /\ async_reset(sensor)) =>
              /\ data # None /\ data' # None
              /\ Get(data'[1], sensor) = V(0)
              /\ Get(_last_data', sensor) = V(0)
              /\ DOMAIN data'[1] = DOMAIN data[1] \cup {sensor}
              /\ DOMAIN _last_data' = DOMAIN _last_data \cup {sensor}
              /\ \A k \in DOMAIN data[1] \ {sensor} :
                     data'[1][k] = data[1][k]
              /\ \A k \in DOMAIN _last_data \ {sensor} :
                     _last_data'[k] = _last_data[k]]_vars

C8_InvalidWorkModeRejected ==
    [][\A info \in RunningInfos :
          (info.work_mode \notin {-1, 0, 1, 2}
             /\ _async_update_data("decoded", info)) =>
              /\ ~last_update_success'
              /\ data' = data
              /\ consecutive_com_failures' = consecutive_com_failures
              /\ streak' = streak]_vars

\* an invalid work_mode arrived after a snapshot had been published
C8_Witness ==
    /\ outcome = "raised"
    /\ last_call = "_async_update_data"
    /\ inverter.work_mode \notin {-1, 0, 1, 2}
    /\ data # None
    /\ ~last_update_success

\* C9: after the first successful fetch the e_today and e_total sensors stay
\* available through any number of transient failures.
C9_EnergyAvailable ==
    (HasSucceeded /\ outcome \in TransientExits) =>
        (available("e_today") /\ available("e_total"))

\* the inverter is suspended: the most recent polls were transient failures,
\* three or more in a row, which is when Offline is to be published
Suspended ==
    /\ HasSucceeded
    /\ outcome \in TransientExits
    /\ streak >= 3

\* C10: when the midnight callback of e_today has fired on a suspended
\* inverter, the live and the cached value of e_today are both 0.
C10_MidnightResetWhenSuspended ==
    (last_call = "async_reset" /\ Suspended) =>
        /\ data # None
        /\ Get(data[1], "e_today") = V(0)
        /\ Get(_last_data, "e_today") = V(0)

(***************************************************************************)
(* Properties of one request/response exchange (SpecExchange).             *)
(***************************************************************************)
\* the failure class of each way an exchange ends without a payload
FailureClass(kind) ==
    CASE kind = "no_response"       -> "ConnectionTimeout"
      [] kind = "short_first_chunk" -> "IncompleteResponse"
      [] kind = "stopped_sending"   -> "IncompleteResponse"
      [] kind = "header_mismatch"   -> "HeaderMismatch"
      [] kind = "crc_error"         -> "ChecksumMismatch"
      [] OTHER                      -> "none"

Ended == pc = "done"

Succeeded == Ended /\ result.kind = "payload"

\* 7 + declared payload length + 2, for a buffer that holds the length byte
DeclaredTotal(buffer) == 7 + buffer[7] + 2

\* C11: when an exchange has ended, by a returned payload or by any failure,
\* the socket it opened is no longer open.
C11_SocketReleased == Ended => cs # "open"

\* C12 (as stated): while the accumulated length differs from the declared
\* total a received datagram is appended, at the declared total the frame
\* goes to validation, a timeout before that ends the exchange with
\* IncompleteResponse, and every exchange eventually ends in a payload or a
\* classified failure.
C12_Reassembly ==
    [][pc = "loop" =>
          IF Len(response) = DeclaredTotal(response)
              THEN Ended' /\ result'.kind \in {"payload", "crc_error"}
              ELSE \/ /\ ~Ended'
                      /\ reads' # reads
                      /\ response' = response \o
                             (IF wire = << >> THEN << >> ELSE Head(wire))
                   \/ /\ Ended'
                      /\ wire = << >> /\ ~more
                      /\ response' = response
                      /\ FailureClass(result'.kind) = "IncompleteResponse"]_vars

Classified ==
    /\ Ended
    /\ \/ result.kind = "payload"
       \/ FailureClass(result.kind) # "none"

C12_ExchangeEnds == C12_Reassembly /\ <>Classified

\* C12 (amended): the same, for the exchanges in which the device stops
\* sending datagrams.
C12_ExchangeEndsWhenDeviceStops == C12_Reassembly /\ (~more ~> Classified)

\* an exchange whose answer came in two datagrams and ended while the second
\* was still awaited
C12_Witness ==
    /\ Ended
    /\ ~more
    /\ result.kind = "stopped_sending"
    /\ response # << >>

\* C13: when the first datagram received holds 8 bytes or fewer, the
\* exchange ends at once with IncompleteResponse, whatever the bytes.
C13_ShortFirstChunk ==
    [][(/\ pc = "first_recv"
        /\ wire # << >>
        /\ Len(Head(wire)) <= 8) =>
          /\ Ended'
          /\ FailureClass(result'.kind) = "IncompleteResponse"]_vars

\* the number of bytes of the answer already taken from the socket
RECURSIVE WireLen(_)
WireLen(w) == IF w = << >> THEN 0 ELSE Len(Head(w)) + WireLen(Tail(w))

BytesRead == Len(reply) - WireLen(wire)

\* a first datagram of 6 to 8 bytes whose header is not the expected one
C13_Witness ==
    /\ Ended
    /\ result.kind = "short_first_chunk"
    /\ BytesRead \in 6..8
    /\ SubSeq(reply, 1, 6) # ResponseHeader(message)

\* the positions (from 0) before the two checksum bytes at which the answer
\* differs from a valid frame that is otherwise the same
TamperedAt ==
    LET sameLength == {f \in Frames(message) : Len(f) = Len(reply)}
    IN  {i \in 0..(Len(reply) - 3) :
            \E f \in sameLength :
                \A j \in 1..Len(f) : (f[j] # reply[j]) <=> (j = i + 1)}

C15_ChecksumRule ==
    (Ended /\ result.kind \in {"payload", "crc_error"}) =>
        LET n == Len(response)
        IN  /\ Succeeded <=>
                  ByteSum(SubSeq(response, 1, n - 2))
                      = 256 * response[n - 1] + response[n]
            /\ Succeeded =>
                  /\ Len(result.payload) = n - 9
                  /\ \A k \in 1..(n - 9) : result.payload[k] = response[7 + k]

\* a frame with a payload was accepted
C15_Witness == Succeeded /\ Len(result.payload) > 0

RECURSIVE Unsigned(_, _, _)
Unsigned(payload, a, b) ==
    IF a >= b THEN 0
    ELSE payload[a + 1] * 256 ^ (b - a - 1) + Unsigned(payload, a + 1, b)

\* the offsets of the divisor table
OffsetTable ==
    [l1_voltage    |-> <<8, 10>>,
     l1_frequency  |-> <<12, 14>>,
     pac           |-> <<14, 16>>,
     work_mode     |-> <<16, 18>>,
     temperature   |-> <<18, 20>>,
     e_total       |-> <<24, 28>>,
     running_hours |-> <<30, 32>>,
     e_today       |-> <<44, 46>>]

\* every field of a decoded payload is the number at its offsets
C18_Offsets ==
    (fn = "_query_running_info" /\ Applied /\ Len(fn_in) >= 46) =>
        /\ fn_out[1].exc = "none"
        /\ DOMAIN fn_out[1].value = DOMAIN OffsetTable
        /\ \A k \in DOMAIN OffsetTable :
               fn_out[1].value[k] =
                   Unsigned(fn_in, OffsetTable[k][1], OffsetTable[k][2])

DecodedCanned ==
    fn = "_query_running_info" /\ Applied /\ fn_in = CannedRunningPayload

\* C18 (as stated): the fields are read at the offsets of the table, and the
\* built-in payload yields work_mode = 0, pac = 241 and e_today = 0.0.
C18_RunningInfoDecoding ==
    /\ C18_Offsets
    /\ DecodedCanned =>
           /\ fn_out[1].value.work_mode = 0
           /\ fn_out[1].value.pac = 241
           /\ fn_out[1].value.e_today = 0

\* C18 (amended): the fields are read at the offsets of the table, and the
\* built-in payload yields work_mode = 1, pac = 137 and e_today = 0.0.
C18_RunningInfoDecodingCanned ==
    /\ C18_Offsets
    /\ DecodedCanned =>
           /\ fn_out[1].value.work_mode = 1
           /\ fn_out[1].value.pac = 137
           /\ fn_out[1].value.e_today = 0

\* the built-in payload has been decoded
C18_Witness == DecodedCanned /\ fn_out[1].exc = "none"

\* text without its trailing padding: the longest prefix that does not end
\* with a padding character
Trimmed(text) ==
    LET keep == {n \in 0..Len(text) :
                    /\ n > 0 => text[n] \notin Whitespace
                    /\ \A k \in (n + 1)..Len(text) : text[k] \in Whitespace}
    IN  SubSeq(text, 1, CHOOSE n \in keep : TRUE)

\* the model and the serial number are the trimmed ASCII text of bytes
\* [5, 15) and [31, 47)
C19_Offsets ==
    (/\ fn = "_query_id_info" /\ Applied
     /\ \A k \in (6..15 \cup 32..47) \cap 1..Len(fn_in) : fn_in[k] < 128) =>
        /\ fn_out[1].exc = "none"
        /\ fn_out[1].value.model =
               Trimmed(SubSeq(fn_in, 6, Min(15, Len(fn_in))))
        /\ fn_out[1].value.serial_number =
               Trimmed(SubSeq(fn_in, 32, Min(47, Len(fn_in))))

IdentifiedCanned ==
    fn = "_query_id_info" /\ Applied /\ fn_in = CannedIdPayload

\* "GW1500-XS"
TextGW1500XS == <<71, 87, 49, 53, 48, 48, 45, 88, 83>>

\* "5150SSX211W0413"
Text5150SSX211W0413 ==
    <<53, 49, 53, 48, 83, 83, 88, 50, 49, 49, 87, 48, 52, 49, 51>>

\* "51500SSX211W0413"
Text51500SSX211W0413 ==
    <<53, 49, 53, 48, 48, 83, 83, 88, 50, 49, 49, 87, 48, 52, 49, 51>>

\* C19 (as stated): identity decoding takes the trimmed text at [5, 15) and
\* [31, 47), and the built-in payload yields model "GW1500-XS" and serial
\* "5150SSX211W0413".
C19_IdentityDecoding ==
    /\ C19_Offsets
    /\ IdentifiedCanned =>
           /\ fn_out[1].value.model = TextGW1500XS
           /\ fn_out[1].value.serial_number = Text5150SSX211W0413

\* C19 (amended): the same, and the built-in payload yields model
\* "GW1500-XS" and serial "51500SSX211W0413".
C19_IdentityDecodingCanned ==
    /\ C19_Offsets
    /\ IdentifiedCanned =>
           /\ fn_out[1].value.model = TextGW1500XS
           /\ fn_out[1].value.serial_number = Text51500SSX211W0413

\* the built-in payload has been decoded, and its model field carried
\* padding
C19_Witness ==
    /\ IdentifiedCanned
    /\ fn_in[15] = 32
    /\ Len(fn_out[1].value.model) = 9

(***************************************************************************)
(* Properties of the poll cycle and the reset (Spec), continued.           *)
(***************************************************************************)
SnapshotFields ==
    {"work_mode", "pac", "e_today", "e_total", "l1_voltage", "l1_frequency",
     "temperature", "running_hours"}

\* C17: after a successful fetch the published snapshot carries the eight
\* fields, each with the value decoded from the response (the work mode by
\* its name), and it is the last-known snapshot.
C17_FreshSnapshot ==
    (last_call = "_async_update_data" /\ outcome = "ok") =>
        /\ data # None
        /\ DOMAIN data[1] = SnapshotFields
        /\ \A k \in SnapshotFields \ {"work_mode"} :
               Get(data[1], k) = V(inverter[k])
        /\ Get(data[1], "work_mode") = inverter.work_mode_string
        /\ _last_data = data[1]

\* the live and the cached value of the daily field are both 0
Zeroed ==
    /\ data # None
    /\ \A sensor \in DAILY_RESET :
           /\ Get(data[1], sensor) = V(0)
           /\ Get(_last_data, sensor) = V(0)

\* C20: a reset due after a poll cycle that ended in a transient failure
\* leaves the live and the cached value at 0, and after a reset both stay 0
\* across the poll cycles that end in a transient failure.
C20_ResetNotLost ==
    [][/\ (/\ last_call' = "async_reset"
           /\ outcome \in TransientExits
           /\ ResetDue) => Zeroed'
       /\ (/\ last_call' = "_async_update_data"
           /\ outcome' \in TransientExits
           /\ Zeroed
           /\ last_call = "async_reset" \/ outcome \in TransientExits)
              => Zeroed']_vars

(***************************************************************************)
(* Properties of one request/response exchange (SpecExchange), continued.  *)
(***************************************************************************)
\* the accumulated bytes exceed the declared total
Overshot ==
    /\ pc \in {"loop", "done"}
    /\ Len(response) >= 7
    /\ Len(response) > DeclaredTotal(response)

\* C21: a frame reaches checksum validation only when the accumulated length
\* is exactly 7 + declared payload length + 2; once the accumulated length
\* exceeds that total the exchange keeps reading, and it can end only in a
\* failure, never in a returned payload.
C21_ExactLength ==
    [][pc = "loop" =>
          /\ result'.kind \in {"payload", "crc_error"} =>
                 Len(response) = DeclaredTotal(response)
          /\ Len(response) > DeclaredTotal(response) =>
                 /\ Len(response') > DeclaredTotal(response')
                 /\ \/ ~Ended' /\ reads' # reads
                    \/ Ended' /\ FailureClass(result'.kind) # "none"]_vars

\* an exchange whose accumulated bytes exceeded the declared total has ended
C21_Witness ==
    /\ Ended
    /\ Overshot
    /\ result.kind = "stopped_sending"

(***************************************************************************)
(* Properties of the poll cycle (Spec), continued.                         *)
(***************************************************************************)
\* C22: the stored work_mode is one of -1, 0, 1, 2 and the stored
\* work_mode_string is the status name of that work_mode (stated for the
\* states after a first successful fetch).
C22_WorkModeConsistent ==
    HasSucceeded =>
        /\ inverter.work_mode \in InverterStatusValues
        /\ inverter.work_mode_string
               = V(InverterStatusName(inverter.work_mode))

\* the readings the offline snapshot carries as null
OfflineNullFields == {"l1_voltage", "l1_frequency", "temperature"}

====
